---- MODULE Spec2Model ----
(***************************************************************************)
(* Model of LegadoGreen/metadata-gen:                                      *)
(*   src/metadata.py         the generation loop and the land sampler      *)
(*   src/minify_metadata.py  the parallel batch minifier                   *)
(*                                                                         *)
(* Numbers that the minifier rounds are fixed-point: a source value is an  *)
(* integer count of hundredths (42137 is 421.37) and a rounded value is an *)
(* integer count of tenths (4214 is 421.4).  Coordinates are whole degrees.*)
(* A JSON object is a function from its keys, a JSON list a sequence.      *)
(***************************************************************************)
EXTENDS Integers, Sequences, FiniteSets, TLC

VARIABLES
    disk,            \* metadata_files/: file name -> file content
    land,            \* the land boundary loaded at import time (set of points)
    \* ---- minify_metadata.main ----
    mpc,             \* "idle" | "running" | "done" | "crashed"
    files,           \* the .txt files listed at the start of the run
    total_files,
    num_processes,
    file_batches,
    pos,             \* per batch: files of it already handed to minify_file
    cnt,             \* per batch: process_batch's local success_count
    outq,            \* batch results in completion order, not yet consumed
    collected,       \* results consumed by the imap_unordered loop
    success_count,
    runs,            \* how many times main() has been started
    \* ---- observation of one run ----
    initial,         \* the disk as it was when the run started
    attempts,        \* file name -> calls of minify_file on it in this run
    result,          \* file name -> "none" | "ok" | "fail" (last return value)
    \* ---- metadata.py generation loop ----
    gpc,             \* "off" | "loop" | "sampling" | "finished"
    i,               \* the loop variable (serial number being built)
    achievements,    \* the achievements chosen for record i
    seed,            \* the seed of the random module's generator
    net,             \* the network and environment the providers see
    \* ---- get_random_land_coordinate ----
    spc,             \* "idle" | "looping" | "returned"
    point,           \* the last Point(lon, lat) tested
    draws,           \* every point drawn in the current call, in order
    coord,           \* the returned (lat, lon)
    \* ---- optimize_metadata as a pure function ----
    data,            \* the parsed record handed to optimize_metadata
    optimized        \* what it returned ("unset" before the call)

vars == <<disk, land, mpc, files, total_files, num_processes, file_batches,
          pos, cnt, outq, collected, success_count, runs,
          initial, attempts, result, gpc, i, achievements, seed, net, spc, point, draws, coord,
          data, optimized>>

minVars == <<mpc, files, total_files, num_processes, file_batches, pos, cnt,
             outq, collected, success_count, runs, initial,
             attempts, result>>
genVars == <<gpc, i, achievements, seed, net>>
samplerVars == <<spc, point, draws, coord>>
optVars == <<data, optimized>>

----------------------------------------------------------------------------
(* Bounds of the model *)

MaxFiles == 3
MaxProcs == 2
MaxRuns == 2
MaxHours == 2
MaxDraws == 3
TotalCount == 52

----------------------------------------------------------------------------
(* Small helpers *)

Min(a, b) == IF a < b THEN a ELSE b

Abs(x) == IF x < 0 THEN -x ELSE x

RECURSIVE Concat(_)
Concat(ss) == IF ss = <<>> THEN <<>> ELSE Head(ss) \o Concat(Tail(ss))

Range(s) == {s[k] : k \in DOMAIN s}

----------------------------------------------------------------------------
(* Python built-ins the minifier relies on *)

\* Ties (in hundredths, below 10.00) whose nearest binary double lies above
\* the decimal value, so that round(x, 1) goes up: 0.05, 0.45, 0.55, ...
DoubleAbove ==
    {5, 45, 55, 65, 105, 135, 155, 185, 235, 245,
     285, 295, 335, 345, 385, 395, 415, 445, 465, 495,
     515, 545, 565, 595, 615, 645, 665, 695, 715, 745,
     765, 795, 805, 815, 855, 865, 905, 915, 955, 965}

\* round(x, 1) on a non-negative float x = h/100, as a count of tenths.
\* The float is rounded correctly from its binary value; only x.25 and x.75
\* are exact ties, and those go to the even tenth.
RoundAbs(h) ==
    LET q == h \div 10
        r == h % 10
    IN  IF r < 5 THEN q
        ELSE IF r > 5 THEN q + 1
        ELSE IF h % 50 = 25 THEN (IF q % 2 = 0 THEN q ELSE q + 1)
        ELSE IF h \in DoubleAbove THEN q + 1
        ELSE q

\* A slip: the second decimal is cut off instead of rounded.
round1_truncating(h) == IF h < 0 THEN -((-h) \div 10) ELSE h \div 10

\* round(x, 1): the sign is kept, the magnitude is rounded.
round1(h) == IF h < 0 THEN -RoundAbs(-h) ELSE RoundAbs(h)

\* range(start, stop, step) for step > 0, as a sequence.
RECURSIVE range(_, _, _)
range(start, stop, step) ==
    IF start >= stop THEN <<>>
    ELSE <<start>> \o range(start + step, stop, step)

\* s[a:b] with 0-based bounds, clipped to the list as Python clips a slice.
Slice(s, a, b) == SubSeq(s, a + 1, Min(b, Len(s)))

----------------------------------------------------------------------------
(* File contents *)

\* json.dump(value, f, ...): the text of a file holding a JSON document.
\* `style` is the layout ("indent2" from the generator, "compact" from the
\* minifier with separators=(',', ':')).
json_dump(value, style) == [text |-> "json", style |-> style, value |-> value]

\* json.load can parse the file.
Parses(c) == c.text = "json"

\* json.load(f) of a file that parses.
json_load(c) == c.value

\* A .txt file that is not JSON: json.load raises JSONDecodeError.
Garbage == [text |-> "garbage"]

\* A directory entry named *.txt that is a directory: open raises OSError.
Directory == [text |-> "directory"]

----------------------------------------------------------------------------
(* Records *)

\* metadata.py: the fixed two-project list attached to a record.
achievements_template ==
    << [project_name |-> "Legado Early - Guania Colombia",
        description |-> "guania",
        current_status |-> "8 communities",
        region |-> "Amazon Rainforest, Colombia",
        co2_sequestered_estimate_tonnes |-> 4,
        deforestation_prevented_km2 |-> 5],
       [project_name |-> "Legado Early - Africa",
        description |-> "africa",
        current_status |-> "100,000 people",
        region |-> "Africa",
        co2_saved_estimate_tonnes |-> 1,
        deforestation_prevented_km2 |-> 1] >>

\* The citation list the generator repeats in two places.
data_sources ==
    << "NASA GISS", "NOAA Climate Data", "Microsoft Planetary Computer",
       "Open-Meteo", "OpenTopography",
       "World Bank Climate Change Knowledge Portal", "FAO SoilGrids" >>

\* The keys optimize_metadata reads from one hourly entry.
HourKeys == {"time", "temperature_2m", "precipitation", "relative_humidity_2m",
             "wind_speed_10m", "wind_direction_10m", "cloud_cover",
             "pressure_msl"}

\* The keys optimize_metadata reads from world_conditions_on_mint.
WorldKeys == {"co2_ppm", "global_temperature_anomaly_c", "ch4_ppb",
              "arctic_sea_ice_min_extent_million_km2",
              "sea_level_mm_above_ref", "nasa_image", "planetary_image",
              "weather_data"}

\* The lookups of optimize_metadata all succeed on d (no KeyError, and the
\* hourly value is a list of objects).
Readable(d) ==
    /\ {"metadata_version", "token_details"} \subseteq DOMAIN d
    /\ LET td == d["token_details"] IN
       /\ {"timestamp_minted", "serial_number", "coordinates",
           "world_conditions_on_mint", "achievements"} \subseteq DOMAIN td
       /\ {"latitude", "longitude"} \subseteq DOMAIN td["coordinates"]
       /\ LET w == td["world_conditions_on_mint"] IN
          /\ WorldKeys \subseteq DOMAIN w
          /\ "hourly" \in DOMAIN w["weather_data"]
          /\ LET hs == w["weather_data"]["hourly"] IN
             \A k \in DOMAIN hs : HourKeys \subseteq DOMAIN hs[k]

\* One entry of the compact hourly list.
optimize_hour(h) ==
    [t  |-> h["time"],
     te |-> round1(h["temperature_2m"]),
     p  |-> round1(h["precipitation"]),
     h  |-> round1(h["relative_humidity_2m"]),
     ws |-> round1(h["wind_speed_10m"]),
     wd |-> round1(h["wind_direction_10m"]),
     cc |-> round1(h["cloud_cover"]),
     pr |-> round1(h["pressure_msl"])]

\* The "w" block of the compact record.
optimize_world(w) ==
    [cp |-> round1(w["co2_ppm"]),
     gt |-> round1(w["global_temperature_anomaly_c"]),
     ch |-> round1(w["ch4_ppb"]),
     ai |-> round1(w["arctic_sea_ice_min_extent_million_km2"]),
     sl |-> round1(w["sea_level_mm_above_ref"]),
     ni |-> w["nasa_image"],
     pi |-> w["planetary_image"],
     wd |-> [h |-> [k \in DOMAIN w["weather_data"]["hourly"] |->
                        optimize_hour(w["weather_data"]["hourly"][k])]]]

\* optimize_metadata(data) for data on which every lookup succeeds.
optimize_metadata(d) ==
    LET td == d["token_details"]
        t  == [ts |-> td["timestamp_minted"],
               sn |-> td["serial_number"],
               c  |-> [la |-> td["coordinates"]["latitude"],
                       lo |-> td["coordinates"]["longitude"]],
               w  |-> optimize_world(td["world_conditions_on_mint"])]
    IN  [a |-> <<>>,
         v |-> d["metadata_version"],
         t |-> IF td["achievements"] # <<>>
               THEN [x \in DOMAIN t \cup {"ac"} |->
                        IF x = "ac" THEN td["achievements"] ELSE t[x]]
               ELSE t]

\* A slip: missing keys are tolerated (dict.get) and the file is rewritten.
minify_file_lenient(c) ==
    IF ~Parses(c) THEN [ok |-> FALSE, content |-> c]
    ELSE IF ~Readable(json_load(c))
         THEN [ok |-> TRUE,
               content |-> json_dump([a |-> <<>>, v |-> "null",
                                      t |-> [sn |-> 0]], "compact")]
    ELSE [ok |-> TRUE,
          content |-> json_dump(optimize_metadata(json_load(c)), "compact")]

\* minify_file(file_path) on a file holding c: the value returned and the
\* content the file is left with.  Reading, parsing and optimizing all come
\* before the file is opened for writing, so an exception in any of them
\* leaves the file as it was.
minify_file(c) ==
    IF ~Parses(c) THEN [ok |-> FALSE, content |-> c]
    ELSE IF ~Readable(json_load(c)) THEN [ok |-> FALSE, content |-> c]
    ELSE [ok |-> TRUE,
          content |-> json_dump(optimize_metadata(json_load(c)), "compact")]

\* One hourly entry as the minifier reads it: te the temperature and p the
\* precipitation in hundredths; the other five readings are derived from
\* them so that the seven fields differ.
HourEntry(k, te, p) ==
    [time |-> k,
     temperature_2m |-> te,
     precipitation |-> p,
     relative_humidity_2m |-> p + 5010,
     wind_speed_10m |-> p + 35,
     wind_direction_10m |-> Abs(te) + 9,
     cloud_cover |-> p + 45,
     pressure_msl |-> 101302 + te]

\* A full record of the shape optimize_metadata reads: sn the serial number,
\* (la, lo) the coordinate, sc the five world-condition scalars, hs the
\* hourly list, ach the achievements list.
FullRecord(sn, la, lo, sc, hs, ach) ==
    [attributes |-> << [trait_type |-> "CO2 Saved (tonnes)", value |-> 20],
                       [trait_type |-> "Deforestation Prevented (km^2)",
                        value |-> 0] >>,
     metadata_version |-> "1.0",
     token_details |->
        [timestamp_minted |-> "2024-01-01T00:00:00Z",
         serial_number |-> sn,
         coordinates |-> [latitude |-> la, longitude |-> lo],
         world_conditions_on_mint |->
            [co2_ppm |-> sc[1],
             global_temperature_anomaly_c |-> sc[2],
             ch4_ppb |-> sc[3],
             arctic_sea_ice_min_extent_million_km2 |-> sc[4],
             ice_sheets_status |-> "Net Mass Loss",
             sea_level_mm_above_ref |-> sc[5],
             ocean_warming_status |-> "Elevated",
             nasa_image |-> "https://apod.nasa.gov/apod/calendar/S_240101.jpg",
             planetary_image |-> "Not Available",
             weather_data |-> [hourly |-> hs]],
         achievements |-> ach,
         data_sources |-> data_sources,
         future_updates |-> <<>>]]

----------------------------------------------------------------------------
(* minify_metadata.py: main, process_batch *)

TxtName(k) == [stem |-> k, ext |-> "txt"]

\* f.endswith('.txt')
IsTxt(name) == name.ext = "txt"

\* The names of a directory in ascending order of stem.
RECURSIVE Ascending(_)
Ascending(names) ==
    IF names = {} THEN <<>>
    ELSE LET m == CHOOSE x \in names : \A y \in names : x.stem <= y.stem
         IN  <<m>> \o Ascending(names \ {m})

Reverse(s) == [k \in 1..Len(s) |-> s[Len(s) + 1 - k]]

\* os.listdir(input_dir): the entries in an arbitrary order; two orders are
\* enumerated.
listdir(d) == {Ascending(DOMAIN d), Reverse(Ascending(DOMAIN d))}

\* [... for f in listing if f.endswith('.txt')]
TxtFiles(listing) == SelectSeq(listing, IsTxt)

\* A slip: floor division instead of the ceiling.
batch_size_floor(n, p) == n \div p

\* A variant that never yields 0: max(1, ceil(n / p)).
batch_size_at_least_one(n, p) ==
    IF (n + p - 1) \div p < 1 THEN 1 ELSE (n + p - 1) \div p

\* batch_size = (total_files + num_processes - 1) // num_processes
batch_size(n, p) == (n + p - 1) \div p

\* A slip: only whole batches are cut, the remainder of the list is dropped.
BatchesDropRemainder(fs, bs) ==
    LET starts == range(0, Len(fs) - bs + 1, bs)
    IN  [k \in DOMAIN starts |-> Slice(fs, starts[k], starts[k] + bs)]

\* [files[i:i + batch_size] for i in range(0, total_files, batch_size)]
Batches(fs, bs) ==
    LET starts == range(0, Len(fs), bs)
    IN  [k \in DOMAIN starts |-> Slice(fs, starts[k], starts[k] + bs)]

\* main() up to the dispatch of the batches to the pool.  With no eligible
\* file batch_size is 0 and range(0, 0, 0) raises ValueError.
MainStart ==
    /\ mpc \in {"idle", "done", "crashed"}
    /\ gpc \in {"off", "finished"}
    /\ runs < MaxRuns
    /\ runs' = runs + 1
    /\ \E listing \in listdir(disk), p \in 1..MaxProcs :
        LET fs == TxtFiles(listing)
            bs == batch_size(Len(fs), p)
            bt == IF bs = 0 THEN <<>> ELSE Batches(fs, bs)
        IN  /\ files' = fs
            /\ total_files' = Len(fs)
            /\ num_processes' = p
            /\ file_batches' = bt
            /\ mpc' = IF bs = 0 THEN "crashed" ELSE "running"
            /\ pos' = [b \in DOMAIN bt |-> 0]
            /\ cnt' = [b \in DOMAIN bt |-> 0]
    /\ outq' = <<>>
    /\ collected' = 0
    /\ success_count' = 0
    /\ initial' = disk
    /\ attempts' = [f \in DOMAIN disk |-> 0]
    /\ result' = [f \in DOMAIN disk |-> "none"]
    /\ UNCHANGED <<disk, land, genVars, samplerVars, optVars>>

\* A slip: a failing file ends the batch (the exception leaves the loop).
ProcessBatchStepAborting(b) ==
    /\ mpc = "running"
    /\ b \in DOMAIN file_batches
    /\ pos[b] < Len(file_batches[b])
    /\ LET f == file_batches[b][pos[b] + 1]
           r == minify_file(disk[f])
       IN  /\ disk' = [disk EXCEPT ![f] = r.content]
           /\ cnt' = [cnt EXCEPT ![b] = IF r.ok THEN @ + 1 ELSE @]
           /\ attempts' = [attempts EXCEPT ![f] = @ + 1]
           /\ result' = [result EXCEPT ![f] = IF r.ok THEN "ok" ELSE "fail"]
           /\ pos' = [pos EXCEPT ![b] = IF r.ok THEN @ + 1
                                        ELSE Len(file_batches[b])]
    /\ outq' = IF pos'[b] = Len(file_batches[b]) THEN Append(outq, cnt'[b])
               ELSE outq
    /\ UNCHANGED <<land, mpc, files, total_files, num_processes, file_batches,
                   collected, success_count, runs, initial,
                   genVars, samplerVars, optVars>>

\* One iteration of process_batch's loop in the worker running batch b:
\* minify_file on the next file of the batch.  After the last file the
\* function returns its success_count, which the pool hands to the
\* imap_unordered iterator in completion order.
ProcessBatchStep(b) ==
    /\ mpc = "running"
    /\ b \in DOMAIN file_batches
    /\ pos[b] < Len(file_batches[b])
    /\ LET f == file_batches[b][pos[b] + 1]
           r == minify_file(disk[f])
       IN  /\ disk' = [disk EXCEPT ![f] = r.content]
           /\ cnt' = [cnt EXCEPT ![b] = IF r.ok THEN @ + 1 ELSE @]
           /\ attempts' = [attempts EXCEPT ![f] = @ + 1]
           /\ result' = [result EXCEPT ![f] = IF r.ok THEN "ok" ELSE "fail"]
    /\ pos' = [pos EXCEPT ![b] = @ + 1]
    /\ outq' = IF pos'[b] = Len(file_batches[b]) THEN Append(outq, cnt'[b])
               ELSE outq
    /\ UNCHANGED <<land, mpc, files, total_files, num_processes, file_batches,
                   collected, success_count, runs, initial,
                   genVars, samplerVars, optVars>>

\* A slip: the tally is overwritten by the last batch's count.
MainCollectOverwrite ==
    /\ mpc = "running"
    /\ outq # <<>>
    /\ success_count' = Head(outq)
    /\ outq' = Tail(outq)
    /\ collected' = collected + 1
    /\ UNCHANGED <<disk, land, mpc, files, total_files, num_processes,
                   file_batches, pos, cnt, runs, initial, attempts,
                   result, genVars, samplerVars, optVars>>

\* for batch_success in pool.imap_unordered(...): success_count += ...
MainCollect ==
    /\ mpc = "running"
    /\ outq # <<>>
    /\ success_count' = success_count + Head(outq)
    /\ outq' = Tail(outq)
    /\ collected' = collected + 1
    /\ UNCHANGED <<disk, land, mpc, files, total_files, num_processes,
                   file_batches, pos, cnt, runs, initial, attempts,
                   result, genVars, samplerVars, optVars>>

\* The iterator is exhausted: pool.close(), pool.join(), the report.  The
\* success rate divides by total_files (ZeroDivisionError when it is 0).
MainFinish ==
    /\ mpc = "running"
    /\ collected = Len(file_batches)
    /\ mpc' = IF total_files = 0 THEN "crashed" ELSE "done"
    /\ UNCHANGED <<disk, land, files, total_files, num_processes, file_batches,
                   pos, cnt, outq, collected, success_count, runs,
                   initial, attempts, result, genVars, samplerVars, optVars>>

\* The record files the minifier is started on.
RecordA ==
    FullRecord(1, 10, 20, <<42137, 110, 189500, 395, 9500>>,
               <<HourEntry(0, 1834, 206), HourEntry(1, -25, 0)>>,
               achievements_template)

RecordB ==
    FullRecord(60, -30, 140, <<42050, 125, 170025, 375, 9075>>,
               <<HourEntry(0, 65, 15)>>, <<>>)

\* A full record with token_details.achievements missing.
RecordNoAchievements ==
    [k \in {"metadata_version", "token_details"} |->
        IF k = "metadata_version" THEN "1.0"
        ELSE [x \in DOMAIN RecordB["token_details"] \ {"achievements"} |->
                 RecordB["token_details"][x]]]

\* A record file the minifier accepts, with serial number k.
ValidRecord(k) ==
    [(IF k % 2 = 1 THEN RecordA ELSE RecordB)
        EXCEPT !["token_details"]["serial_number"] = k]

\* What <k>.txt may hold: a valid record, a record with a missing field,
\* text that is not JSON, or nothing readable (the entry is a directory).
MinContents(k) ==
    {json_dump(ValidRecord(k), "indent2"),
     json_dump(RecordNoAchievements, "indent2"), Garbage, Directory}

InitIdleMin ==
    /\ mpc = "idle"
    /\ files = <<>>
    /\ total_files = 0
    /\ num_processes = 0
    /\ file_batches = <<>>
    /\ pos = <<>>
    /\ cnt = <<>>
    /\ outq = <<>>
    /\ collected = 0
    /\ success_count = 0
    /\ runs = 0
    /\ initial = <<>>
    /\ attempts = <<>>
    /\ result = <<>>

InitIdleGen ==
    /\ gpc = "off"
    /\ i = 0
    /\ achievements = <<>>
    /\ seed = 0
    /\ net = [online |-> FALSE, api_key |-> FALSE]

InitIdleSampler ==
    /\ spc = "idle"
    /\ point = <<0, 0>>
    /\ draws = <<>>
    /\ coord = <<0, 0>>

InitIdleOpt ==
    /\ data = <<>>
    /\ optimized = [state |-> "unset"]

\* The minifier started on a directory of up to MaxFiles .txt entries, with
\* or without one entry that is not a .txt file.
InitMin ==
    /\ \E n \in 0..MaxFiles, other \in BOOLEAN :
       \E c \in [1..n -> UNION {MinContents(k) : k \in 1..n}] :
          /\ \A k \in 1..n : c[k] \in MinContents(k)
          /\ disk = [f \in {TxtName(k) : k \in 1..n}
                           \cup (IF other THEN {[stem |-> 0, ext |-> "json"]}
                                 ELSE {}) |->
                       IF IsTxt(f) THEN c[f.stem] ELSE Garbage]
    /\ land = {}
    /\ InitIdleMin
    /\ InitIdleGen
    /\ InitIdleSampler
    /\ InitIdleOpt

NextMin ==
    \/ MainStart
    \/ \E b \in 1..MaxFiles : ProcessBatchStep(b)
    \/ MainCollect
    \/ MainFinish

SpecMin == InitMin /\ [][NextMin]_vars

\* process_batch(file_paths) run alone on directory d: the directory it
\* leaves and the success_count it returns.
RECURSIVE process_batch(_, _)
process_batch(file_paths, d) ==
    IF file_paths = <<>> THEN [disk |-> d, success_count |-> 0]
    ELSE LET f == Head(file_paths)
             r == minify_file(d[f])
             rest == process_batch(Tail(file_paths),
                                   [d EXCEPT ![f] = r.content])
         IN  [disk |-> rest.disk,
              success_count |-> rest.success_count + (IF r.ok THEN 1 ELSE 0)]

----------------------------------------------------------------------------
(* Claims about the minifier (SpecMin) *)

Started == mpc \in {"running", "done"}

Eligible == {f \in DOMAIN initial : IsTxt(f)}

\* C1: for n >= 1 files and p >= 1 workers the batches are contiguous slices
\* of the file list, pairwise disjoint, their in-order concatenation is the
\* whole list, there are at most p of them, none is empty and none is larger
\* than ceil(n/p).
C1_BatchesPartition ==
    (mpc # "idle" /\ total_files >= 1) =>
        /\ Started
        /\ Concat(file_batches) = files
        /\ \A a, b \in DOMAIN file_batches :
              a # b => Range(file_batches[a]) \cap Range(file_batches[b]) = {}
        /\ \A f \in Range(files) :
              Cardinality({b \in DOMAIN file_batches :
                              f \in Range(file_batches[b])}) = 1
        /\ Len(file_batches) <= num_processes
        /\ \A b \in DOMAIN file_batches :
              /\ Len(file_batches[b]) >= 1
              /\ (Len(file_batches[b]) - 1) * num_processes < total_files

\* Three files cut for two workers: a batch of two and a batch of one.
C1_Witness ==
    /\ Started
    /\ total_files = 3
    /\ num_processes = 2
    /\ Len(file_batches) = 2
    /\ Len(file_batches[1]) = 2
    /\ Len(file_batches[2]) = 1

\* C2: whatever the order in which the batches complete, at the end
\* success_count is the number of eligible files for which minify_file
\* returned True and total is the number of eligible files enumerated at the
\* start; 0 <= success_count <= total always.
C2_TallyIsExact ==
    /\ Started => (0 <= success_count /\ success_count <= total_files)
    /\ Started => total_files = Cardinality(Eligible)
    /\ mpc = "done" =>
          success_count = Cardinality({f \in Eligible : result[f] = "ok"})

\* A finished run of two batches, each with one success, and one file that
\* failed.
C2_Witness ==
    /\ mpc = "done"
    /\ Len(file_batches) = 2
    /\ success_count = 2
    /\ total_files = 3
    /\ cnt[1] = 1
    /\ cnt[2] = 1

\* C3: a per-file failure is a non-success that aborts nothing: every file
\* of every batch is attempted, exactly once, and a failed file is not tried
\* again.
C3_FailureIsLocal ==
    /\ Started =>
          /\ \A f \in DOMAIN attempts :
                attempts[f] <= (IF IsTxt(f) THEN 1 ELSE 0)
          /\ \A b \in DOMAIN file_batches :
                /\ \A k \in 1..Len(file_batches[b]) :
                      attempts[file_batches[b][k]] = (IF k <= pos[b] THEN 1 ELSE 0)
                /\ cnt[b] = Cardinality({k \in 1..pos[b] :
                                result[file_batches[b][k]] = "ok"})
    /\ mpc = "done" => \A f \in Eligible : attempts[f] = 1

\* A finished run whose first batch began with a failing file and went on to
\* minify the next one.
C3_Witness ==
    /\ mpc = "done"
    /\ Len(file_batches) >= 2
    /\ Len(file_batches[1]) = 2
    /\ result[file_batches[1][1]] = "fail"
    /\ result[file_batches[1][2]] = "ok"

\* The run of the 1-worker configuration: one batch, the whole listing.
OneWorker == process_batch(TxtFiles(Ascending(DOMAIN initial)), initial)

\* C4: a run with any number of workers and any interleaving leaves every
\* file with the content the 1-worker run leaves and reports the same
\* success and total counts.
C4_SameAsOneWorker ==
    mpc = "done" =>
        /\ disk = OneWorker.disk
        /\ success_count = OneWorker.success_count
        /\ total_files = Len(TxtFiles(Ascending(DOMAIN initial)))

\* A finished run of two workers over three files, listed in descending
\* order, that rewrote two files.
C4_Witness ==
    /\ mpc = "done"
    /\ num_processes = 2
    /\ Len(file_batches) = 2
    /\ files[1] = TxtName(3)
    /\ disk # initial
    /\ success_count = 2

\* A file in compact form.
IsCompact(c) == Parses(c) /\ DOMAIN json_load(c) = {"a", "v", "t"}

\* C6: minify_file on a file that is already compact rejects it: it returns
\* False, the file keeps its content, and it is not counted as a success.
C6_SecondRunRejected ==
    /\ Started =>
          \A f \in DOMAIN attempts :
              (attempts[f] >= 1 /\ IsCompact(initial[f])) =>
                  /\ disk[f] = initial[f]
                  /\ result[f] = "fail"
    /\ mpc = "done" =>
          success_count <= Cardinality({f \in Eligible : ~IsCompact(initial[f])})

\* A second run over a file the first run made compact.
C6_Witness ==
    /\ runs = 2
    /\ mpc = "done"
    /\ \E f \in Eligible :
          /\ IsCompact(initial[f])
          /\ attempts[f] = 1
          /\ initial[f] = json_dump(optimize_metadata(ValidRecord(1)), "compact")

\* C11: with zero eligible (.txt) files the run does not finish with a
\* (0, 0) report: batch_size is 0, the run ends in an unhandled error before
\* any worker is dispatched, and no file is read or written.
C11_EmptyDirectoryCrashes ==
    (mpc # "idle" /\ Eligible = {}) =>
        /\ mpc = "crashed"
        /\ total_files = 0
        /\ batch_size(total_files, num_processes) = 0
        /\ file_batches = <<>>
        /\ outq = <<>>
        /\ collected = 0
        /\ disk = initial
        /\ \A f \in DOMAIN attempts : attempts[f] = 0 /\ result[f] = "none"

\* A run started on a directory whose only entry is not a .txt file.
C11_Witness ==
    /\ mpc = "crashed"
    /\ runs >= 1
    /\ DOMAIN initial = {[stem |-> 0, ext |-> "json"]}
    /\ files = <<>>
    /\ num_processes = 2

----------------------------------------------------------------------------
(* optimize_metadata as a pure function (SpecOpt) *)

\* co2_ppm and global_temperature_anomaly_c, in hundredths.
ScalarVals == {42137, 110, 25, 35, 45, 275}

TempVals == {1834, -25, -1834, 65}

PrecipVals == {206, 0, 15}

\* The hourly lists of up to MaxHours entries.
HourlyLists ==
    UNION {[1..n -> {HourEntry(0, te, p) : te \in TempVals, p \in PrecipVals}]
              : n \in 0..MaxHours}

\* Parsed documents handed to optimize_metadata: full records, and two
\* documents that are not full records.
OptInputs ==
    {FullRecord(7, 10, 20, <<cp, gt, cp + 5, gt + 10, Abs(cp - gt)>>,
                [k \in DOMAIN hs |-> [hs[k] EXCEPT !["time"] = k - 1]], ach)
        : cp \in ScalarVals, gt \in ScalarVals, hs \in HourlyLists,
          ach \in {<<>>, achievements_template}}
    \cup {RecordNoAchievements, optimize_metadata(RecordA)}

InitOpt ==
    /\ data \in OptInputs
    /\ optimized = [state |-> "unset"]
    /\ disk = <<>>
    /\ land = {}
    /\ InitIdleMin
    /\ InitIdleGen
    /\ InitIdleSampler

\* optimized_data = optimize_metadata(data): it returns, or a lookup raises.
Optimize ==
    /\ optimized.state = "unset"
    /\ optimized' = IF Readable(data)
                    THEN [state |-> "returned", value |-> optimize_metadata(data)]
                    ELSE [state |-> "raised"]
    /\ UNCHANGED <<data, disk, land, minVars, genVars, samplerVars>>

NextOpt == Optimize

SpecOpt == InitOpt /\ [][NextOpt]_vars

\* r (tenths) is a tenth nearest to h (hundredths): h rounded to one decimal.
RoundedTo1(r, h) == Abs(10 * r - h) <= 5

\* C9: every rounded compact field is its source field rounded to one
\* decimal place (421.37 -> 421.4, 1.10 -> 1.1, 18.34 -> 18.3, 2.06 -> 2.1),
\* the hourly list keeps its length and order, and t.ac is present exactly
\* when the source achievements list is non-empty, and is then that list.
C9_RoundedToOneDecimal ==
    optimized.state = "returned" =>
        LET td == data["token_details"]
            w  == td["world_conditions_on_mint"]
            hs == w["weather_data"]["hourly"]
            o  == optimized.value
            ow == o.t.w
            oh == ow.wd.h
        IN  /\ RoundedTo1(ow.cp, w["co2_ppm"])
            /\ RoundedTo1(ow.gt, w["global_temperature_anomaly_c"])
            /\ RoundedTo1(ow.ch, w["ch4_ppb"])
            /\ RoundedTo1(ow.ai, w["arctic_sea_ice_min_extent_million_km2"])
            /\ RoundedTo1(ow.sl, w["sea_level_mm_above_ref"])
            /\ w["co2_ppm"] = 42137 => ow.cp = 4214
            /\ w["global_temperature_anomaly_c"] = 110 => ow.gt = 11
            /\ Len(oh) = Len(hs)
            /\ \A k \in 1..Len(hs) :
                  /\ oh[k].t = hs[k]["time"]
                  /\ RoundedTo1(oh[k].te, hs[k]["temperature_2m"])
                  /\ RoundedTo1(oh[k].p, hs[k]["precipitation"])
                  /\ RoundedTo1(oh[k].h, hs[k]["relative_humidity_2m"])
                  /\ RoundedTo1(oh[k].ws, hs[k]["wind_speed_10m"])
                  /\ RoundedTo1(oh[k].wd, hs[k]["wind_direction_10m"])
                  /\ RoundedTo1(oh[k].cc, hs[k]["cloud_cover"])
                  /\ RoundedTo1(oh[k].pr, hs[k]["pressure_msl"])
                  /\ hs[k]["temperature_2m"] = 1834 => oh[k].te = 183
                  /\ hs[k]["precipitation"] = 206 => oh[k].p = 21
            /\ ("ac" \in DOMAIN o.t) = (td["achievements"] # <<>>)
            /\ "ac" \in DOMAIN o.t => o.t.ac = td["achievements"]

\* The scenario of the specification, minified, with its achievements.
C9_Witness ==
    /\ optimized.state = "returned"
    /\ data["token_details"]["world_conditions_on_mint"]["co2_ppm"] = 42137
    /\ optimized.value.t.w.cp = 4214
    /\ optimized.value.t.w.gt = 11
    /\ Len(optimized.value.t.w.wd.h) = 2
    /\ optimized.value.t.w.wd.h[1].te = 183
    /\ optimized.value.t.w.wd.h[1].p = 21
    /\ optimized.value.t.w.wd.h[2].te = -2
    /\ "ac" \in DOMAIN optimized.value.t
    /\ optimized.value.t.ac = achievements_template

----------------------------------------------------------------------------
(* metadata.py: get_random_land_coordinate *)

\* Values of random.uniform(-60, 80) and of random.uniform(-180, 180).
LatDraws == {-60, 10}

LonDraws == {-180, 80}

\* Point(x, y)
Point(x, y) == <<x, y>>

\* Points a boundary may hold: the points that can be drawn, one south of
\* the sampling box and one inside it that is never drawn.
LandPoints == {Point(lon, lat) : lon \in LonDraws, lat \in LatDraws}
                  \cup {Point(0, -80), Point(10, 80)}

\* A slip: the point is built as Point(lat, lon).
TestPointSwapped(lat, lon) == Point(lat, lon)

\* point = Point(lon, lat)
TestPoint(lat, lon) == Point(lon, lat)

\* land.contains(point)
contains(boundary, pt) == pt \in boundary

\* The call of get_random_land_coordinate() (standalone).
GetCoordinateCall ==
    /\ gpc = "off"
    /\ spc = "idle"
    /\ spc' = "looping"
    /\ draws' = <<>>
    /\ UNCHANGED <<point, coord, disk, land, minVars, genVars, optVars>>

\* One iteration of the while True loop: draw lat and lon, build the point,
\* return (lat, lon) if the land contains it, loop otherwise.
GetCoordinateIteration ==
    /\ spc = "looping"
    /\ Len(draws) < MaxDraws
    /\ \E lat \in LatDraws, lon \in LonDraws :
          /\ point' = TestPoint(lat, lon)
          /\ draws' = Append(draws, <<lat, lon>>)
          /\ IF contains(land, point')
             THEN spc' = "returned" /\ coord' = <<lat, lon>>
             ELSE spc' = "looping" /\ coord' = coord
    /\ UNCHANGED <<disk, land, minVars, genVars, optVars>>

InitSampler ==
    /\ land \in SUBSET LandPoints
    /\ disk = <<>>
    /\ InitIdleMin
    /\ InitIdleGen
    /\ InitIdleSampler
    /\ InitIdleOpt

NextSampler ==
    \/ GetCoordinateCall
    \/ GetCoordinateIteration

SpecSampler == InitSampler /\ [][NextSampler]_vars

\* C10: the call returns only a coordinate that passed the containment
\* test, with latitude in [-60, 80] and longitude in [-180, 180]; it is the
\* first drawn point the land contains; a rejected draw leaves the loop
\* running for a fresh draw, without a limit on attempts, so the call returns
\* only if some draw lands inside the boundary.
C10_FirstLandPoint ==
    /\ spc = "returned" =>
          /\ contains(land, Point(coord[2], coord[1]))
          /\ -60 <= coord[1] /\ coord[1] <= 80
          /\ -180 <= coord[2] /\ coord[2] <= 180
          /\ draws # <<>>
          /\ coord = draws[Len(draws)]
          /\ \A k \in 1..(Len(draws) - 1) :
                ~contains(land, Point(draws[k][2], draws[k][1]))
    /\ spc = "looping" =>
          /\ \A k \in 1..Len(draws) :
                ~contains(land, Point(draws[k][2], draws[k][1]))
          /\ Len(draws) < MaxDraws => ENABLED GetCoordinateIteration

\* A call that returned its third draw after two rejected ones, from a land
\* that holds more than one point of the sampling box.
C10_Witness ==
    /\ spc = "returned"
    /\ Len(draws) = 3
    /\ draws[1] # draws[2]
    /\ Cardinality(land) >= 2
    /\ coord = <<10, 80>>

----------------------------------------------------------------------------
(* metadata.py: the generation loop *)

\* A value of the random module's stream: the k-th draw of iteration n, an
\* integer in lo..hi, determined by the seed.
Uniform(n, k, lo, hi) ==
    lo + ((seed * 7919 + n * 104729 + k * 1299709) % (hi - lo + 1))

\* A slip: the first 49 records only.
IncludeAchievementsBelow(n, roll) == n < 50 \/ roll

\* if i <= 50 or random.random() < 0.01 (roll is the outcome of the draw)
IncludeAchievements(n, roll) == n <= 50 \/ roll

\* get_imagery_from_mpc
get_imagery_from_mpc == IF net.online THEN "https://mpc/visual.tif"
                        ELSE "Not Available"

\* get_weather_data: the providers that answered, keyed by provider.
get_weather_data ==
    LET meteo == [time |-> <<0>>, temperature_2m |-> <<1834>>,
                  precipitation |-> <<206>>]
    IN  IF ~net.online THEN <<>>
        ELSE IF net.api_key
             THEN [open_meteo |-> meteo, openweather |-> [lat |-> 0]]
             ELSE [open_meteo |-> meteo]

\* get_planetary_computer_data
get_planetary_computer_data ==
    IF net.online THEN [x \in {"sentinel-2-l2a"} |-> "https://mpc/visual.tif"]
    ELSE <<>>

\* get_environmental_data
get_environmental_data ==
    IF net.online
    THEN [elevation_data |-> <<>>, air_quality_data |-> <<>>,
          climate_data |-> <<>>, terrain_data |-> <<>>]
    ELSE <<>>

\* The metadata dictionary built for serial number n at (lat, lon).
metadata(n, lat, lon, ach) ==
    [attributes |->
        << [trait_type |-> "CO2 Saved (tonnes)",
            value |-> Uniform(n, 1, 20, 400)],
           [trait_type |-> "Deforestation Prevented (km^2)",
            value |-> Uniform(n, 2, 0, 55)] >>,
     metadata_version |-> "1.0",
     token_details |->
        [timestamp_minted |-> Uniform(n, 3, 0, 39571199),
         serial_number |-> n,
         world_conditions_on_mint |->
            [co2_ppm |-> Uniform(n, 4, 37050, 47050),
             global_temperature_anomaly_c |-> Uniform(n, 5, 94, 154),
             ch4_ppb |-> Uniform(n, 6, 159500, 219500),
             arctic_sea_ice_min_extent_million_km2 |-> Uniform(n, 7, 340, 440),
             ice_sheets_status |-> "Net Mass Loss",
             sea_level_mm_above_ref |-> Uniform(n, 8, 8500, 10500),
             ocean_warming_status |-> "Elevated",
             nasa_image |-> "https://apod.nasa.gov/apod/calendar/S_yymmdd.jpg",
             coordinates |-> [latitude |-> lat, longitude |-> lon],
             planetary_image |-> get_imagery_from_mpc,
             weather_data |-> get_weather_data,
             environmental_data |-> get_environmental_data,
             planetary_computer_data |-> get_planetary_computer_data,
             data_sources |-> data_sources],
         achievements |-> ach,
         data_sources |-> data_sources,
         future_updates |-> <<>>]]

\* The head of one iteration: the random attributes and world conditions,
\* the achievements decision, and the call of get_random_land_coordinate().
\* range(1, total_files + 1) exhausted ends the loop.
LoopHead ==
    /\ gpc = "loop"
    /\ spc = "idle"
    /\ IF i > TotalCount
       THEN /\ gpc' = "finished"
            /\ UNCHANGED <<achievements, spc, draws>>
       ELSE /\ gpc' = "sampling"
            /\ \E roll \in BOOLEAN :
                  achievements' = IF IncludeAchievements(i, roll)
                                  THEN achievements_template ELSE <<>>
            /\ spc' = "looping"
            /\ draws' = <<>>
    /\ UNCHANGED <<i, seed, net, point, coord, disk, land, minVars, optVars>>

\* The rest of the iteration once the coordinate is returned: the provider
\* calls, the metadata dictionary, and json.dump to <i>.txt.
LoopBody ==
    /\ gpc = "sampling"
    /\ spc = "returned"
    /\ LET name == TxtName(i)
           text == json_dump(metadata(i, coord[1], coord[2], achievements),
                             "indent2")
       IN  disk' = [f \in DOMAIN disk \cup {name} |->
                       IF f = name THEN text ELSE disk[f]]
    /\ i' = i + 1
    /\ gpc' = "loop"
    /\ spc' = "idle"
    /\ UNCHANGED <<achievements, seed, net, point, draws, coord, land,
                   minVars, optVars>>

\* The generator started in an empty metadata_files/, with a land boundary
\* of one point.
InitGen ==
    /\ disk = <<>>
    /\ land \in {{Point(80, 10)}, {Point(-180, -60)}}
    /\ gpc = "loop"
    /\ i = 1
    /\ achievements = <<>>
    /\ seed \in {0, 1}
    /\ net \in [online : BOOLEAN, api_key : BOOLEAN]
    /\ InitIdleMin
    /\ InitIdleSampler
    /\ InitIdleOpt

NextGen ==
    \/ LoopHead
    \/ GetCoordinateIteration
    \/ LoopBody

SpecGen == InitGen /\ [][NextGen]_vars

----------------------------------------------------------------------------
(* Claims about the generator (SpecGen) *)

\* The parsed record held by file f.
RecordOf(f) == json_load(disk[f])

\* C5: every record file written by the generation loop can be minified:
\* minify_file succeeds on it, and the compact record's t.sn and t.c are the
\* record's serial number and coordinate.
C5_GeneratedFilesMinify ==
    \A f \in DOMAIN disk :
        LET r == minify_file(disk[f])
            w == RecordOf(f)["token_details"]["world_conditions_on_mint"]
        IN  /\ r.ok
            /\ json_load(r.content).t.sn = f.stem
            /\ json_load(r.content).t.c =
                  [la |-> w["coordinates"]["latitude"],
                   lo |-> w["coordinates"]["longitude"]]

\* After N records there are exactly N record files, file i holds serial
\* number i, and the serial numbers are 1..N.
RecordFilesDense ==
    gpc = "finished" =>
        /\ DOMAIN disk = {TxtName(n) : n \in 1..TotalCount}
        /\ Cardinality(DOMAIN disk) = TotalCount
        /\ \A f \in DOMAIN disk :
              RecordOf(f)["token_details"]["serial_number"] = f.stem

\* The files the run left that hold a FeatureCollection.
GeoIndexFiles ==
    {f \in DOMAIN disk : Parses(disk[f]) /\ "features" \in DOMAIN RecordOf(f)}

\* C7: after the generator has run for N records there are exactly N record
\* files, file i holds serial number i, the serial numbers are 1..N, and the
\* GeoIndex FeatureCollection holds exactly N point features with ids 1..N.
C7_FilesAndGeoIndex ==
    gpc = "finished" =>
        /\ RecordFilesDense
        /\ \E g \in GeoIndexFiles :
              /\ Len(RecordOf(g)["features"]) = TotalCount
              /\ {RecordOf(g)["features"][k]["properties"]["id"] :
                     k \in 1..TotalCount} = 1..TotalCount

\* C8: the achievements of every written record are the empty list or the
\* two-entry template, and every record with serial number <= 50 has the
\* template.
C8_AchievementsPolicy ==
    \A f \in DOMAIN disk :
        LET td == RecordOf(f)["token_details"]
        IN  /\ td["achievements"] \in {<<>>, achievements_template}
            /\ td["serial_number"] <= 50 =>
                  td["achievements"] = achievements_template
            /\ td["achievements"] = <<>> => td["serial_number"] > 50

\* Record 50 with the template, record 51 without achievements and record
\* 52 with the template again.
C8_Witness ==
    /\ {TxtName(50), TxtName(51), TxtName(52)} \subseteq DOMAIN disk
    /\ RecordOf(TxtName(50))["token_details"]["achievements"]
          = achievements_template
    /\ RecordOf(TxtName(51))["token_details"]["achievements"] = <<>>
    /\ RecordOf(TxtName(52))["token_details"]["achievements"]
          = achievements_template

====
